---- MODULE Spec2Model ----
(***************************************************************************)
(* Banner compositing pipeline of ARUM: the Flask handler generate_banner  *)
(* (src/app.py) and the BannerTransformer / StylePresets classes           *)
(* (src/transformers.py).                                                  *)
(*                                                                         *)
(* Spec     : one POST /generate-banner request, step by step.             *)
(* SpecAPI  : direct calls of the BannerTransformer methods on an          *)
(*            arbitrary RGBA image, as in the "Example usage" block.       *)
(* SpecServe: several requests whose banners are rendered, each naming and *)
(*            saving its file while the clock runs.                        *)
(***************************************************************************)
EXTENDS Integers, Sequences, FiniteSets, TLC

VARIABLES
    pc,            \* position in generate_banner, or "api" / "returned"
    request,       \* the JSON body of the request
    image,         \* transformer.image (NoImage before Image.new)
    style_preset,  \* the value getattr(...)() returned
    stages,        \* stage methods called so far, in call order
    last,          \* the most recent method call: arguments and outcome
    rngDraws,      \* random values consumed so far
    response,      \* HTTP status of the response (0: none yet)
    now,           \* datetime.now(), in ticks of 1 / TicksPerSecond second
    files,         \* the upload folder: file path -> request whose banner it holds
    handlers       \* per request being served: position, file name, banner_url

\* the state shared by the requests being served
server == <<now, files, handlers>>
vars == <<pc, request, image, style_preset, stages, last, rngDraws, response,
          now, files, handlers>>

\* ------------------------------------------------------------------ bounds
\* largest width and height of the images that are built (requests with a
\* side at the limit MAX_DIM are added one by one in Requests)
MaxWidth == 4
MaxHeight == 2
\* requests served side by side, clock ticks per second and seconds the
\* clock advances
MaxRequests == 3
TicksPerSecond == 2
MaxSeconds == 2

\* ------------------------------------------------------- program constants
\* app.py:51  "if width > 4000 or height > 4000"
MAX_DIM == 4000

None == "None"
ValueError == "ValueError"
TypeError == "TypeError"

Min(a, b) == IF a < b THEN a ELSE b
Max(a, b) == IF a > b THEN a ELSE b

\* ------------------------------------------------------------ dictionaries
\* A Python dict is an insertion-ordered list of <<key, value>> pairs with
\* distinct keys.
Keys(d) == {d[i][1] : i \in 1..Len(d)}
HasKey(d, k) == \E i \in 1..Len(d) : d[i][1] = k
Get(d, k) == d[CHOOSE i \in 1..Len(d) : d[i][1] = k][2]
\* dict.get(k, default)
GetOr(d, k, default) == IF HasKey(d, k) THEN Get(d, k) ELSE default

\* ------------------------------------------------ IEEE-754 double arithmetic
\* np.linspace and the channel expressions of apply_gradient are computed in
\* binary64.  A magnitude is an unbounded natural kept as a little-endian
\* sequence of base-2^13 digits without leading zero digits (<<>> is 0), so
\* that no intermediate value exceeds 32 bits.
DBase == 8192
DBits == 13
\* significand width of binary64
Mant == 53

Pow2(k) == IF k <= 0 THEN 1 ELSE 2 ^ k

RECURSIVE BTrim(_)
BTrim(a) ==
    IF a = <<>> THEN <<>>
    ELSE IF a[Len(a)] = 0 THEN BTrim(SubSeq(a, 1, Len(a) - 1)) ELSE a

RECURSIVE BFromInt(_)
BFromInt(n) == IF n = 0 THEN <<>> ELSE <<n % DBase>> \o BFromInt(n \div DBase)

RECURSIVE BToInt(_)
BToInt(a) == IF a = <<>> THEN 0 ELSE Head(a) + DBase * BToInt(Tail(a))

RECURSIVE BMulC(_, _, _)
BMulC(a, c, carry) ==
    IF a = <<>> THEN BFromInt(carry)
    ELSE LET t == Head(a) * c + carry
         IN  <<t % DBase>> \o BMulC(Tail(a), c, t \div DBase)
\* a * c for 0 <= c < 2^17
BMulSmall(a, c) == BTrim(BMulC(a, c, 0))

\* floor(a / c) for 0 < c <= 2^13, most significant digit first
RECURSIVE BDivC(_, _, _)
BDivC(a, c, rem) ==
    IF a = <<>> THEN <<>>
    ELSE LET t == rem * DBase + a[Len(a)]
         IN  BDivC(SubSeq(a, 1, Len(a) - 1), c, t % c) \o <<t \div c>>
BDivSmall(a, c) == BTrim(BDivC(a, c, 0))

RECURSIVE BAddC(_, _, _)
BAddC(a, b, carry) ==
    IF a = <<>> /\ b = <<>> THEN BFromInt(carry)
    ELSE LET x == IF a = <<>> THEN 0 ELSE Head(a)
             y == IF b = <<>> THEN 0 ELSE Head(b)
             t == x + y + carry
         IN  <<t % DBase>> \o BAddC(IF a = <<>> THEN <<>> ELSE Tail(a),
                                    IF b = <<>> THEN <<>> ELSE Tail(b),
                                    t \div DBase)
BAdd(a, b) == BTrim(BAddC(a, b, 0))

\* a - b for a >= b
RECURSIVE BSubC(_, _, _)
BSubC(a, b, borrow) ==
    IF a = <<>> THEN <<>>
    ELSE LET y == IF b = <<>> THEN 0 ELSE Head(b)
             t == Head(a) - y - borrow
         IN  <<IF t < 0 THEN t + DBase ELSE t>>
             \o BSubC(Tail(a), IF b = <<>> THEN <<>> ELSE Tail(b),
                      IF t < 0 THEN 1 ELSE 0)
BSub(a, b) == BTrim(BSubC(a, b, 0))

\* a < b
RECURSIVE BLessFrom(_, _, _)
BLessFrom(a, b, i) ==
    IF i = 0 THEN FALSE
    ELSE IF a[i] # b[i] THEN a[i] < b[i] ELSE BLessFrom(a, b, i - 1)
BLess(a, b) ==
    IF Len(a) # Len(b) THEN Len(a) < Len(b) ELSE BLessFrom(a, b, Len(a))

RECURSIVE IntBitLen(_)
IntBitLen(n) == IF n = 0 THEN 0 ELSE 1 + IntBitLen(n \div 2)
BBitLen(a) ==
    IF a = <<>> THEN 0 ELSE DBits * (Len(a) - 1) + IntBitLen(a[Len(a)])

BShl(a, k) ==
    IF a = <<>> THEN <<>>
    ELSE [i \in 1..(k \div DBits) |-> 0] \o BMulSmall(a, Pow2(k % DBits))
BShr(a, k) ==
    IF k \div DBits >= Len(a) THEN <<>>
    ELSE BDivSmall(SubSeq(a, (k \div DBits) + 1, Len(a)), Pow2(k % DBits))
BIsOdd(a) == a # <<>> /\ a[1] % 2 = 1

\* A double is sign * m * 2^e with m = 0 or 2^52 <= m < 2^53.
FZero == [sign |-> 1, m |-> <<>>, e |-> 0]

\* round-to-nearest, ties-to-even, of the exact value sign * big * 2^e.
\* A value of L > 53 bits loses its k = L - 53 lowest bits: r1 keeps one guard
\* bit below the quotient q, which is rounded up when the guard bit is set
\* and either a lower bit is set or q is odd; q2 is the rounded quotient,
\* which may have grown to 54 bits.
FPack(sign, q2, e) ==
    IF BBitLen(q2) > Mant
    THEN [sign |-> sign, m |-> BShr(q2, 1), e |-> e + 1]
    ELSE [sign |-> sign, m |-> q2, e |-> e]
FRoundUp(sign, big, r1, q, k, e) ==
    FPack(sign,
          IF BIsOdd(r1) /\ (BShl(r1, k - 1) # big \/ BIsOdd(q))
          THEN BAdd(q, <<1>>) ELSE q,
          e + k)
FRoundBits(sign, big, e, L) ==
    IF L = 0 THEN FZero
    ELSE IF L <= Mant
    THEN [sign |-> sign, m |-> BShl(big, Mant - L), e |-> e - (Mant - L)]
    ELSE FRoundUp(sign, big, BShr(big, L - Mant - 1), BShr(big, L - Mant),
                  L - Mant, e)
FRound(sign, big, e) == FRoundBits(sign, big, e, BBitLen(big))

Abs(n) == IF n < 0 THEN -n ELSE n
Sgn(n) == IF n < 0 THEN -1 ELSE 1

\* float(n)
FFromInt(n) == FRound(Sgn(n), BFromInt(Abs(n)), 0)
\* n * x for a Python int n (|n| <= 255) and a double x
FMulInt(n, x) == FRound(Sgn(n) * x.sign, BMulSmall(x.m, Abs(n)), x.e)
\* 1.0 / d for an int d in 1..4095: the quotient q of num = 2^66 by d with a
\* sticky bit for the remainder, rounded
FRecipSticky(num, q, d) ==
    BAdd(BShl(q, 1), IF BMulSmall(q, d) # num THEN <<1>> ELSE <<>>)
FRecip(d) ==
    FRound(1,
           FRecipSticky(BShl(<<1>>, Mant + DBits),
                        BDivSmall(BShl(<<1>>, Mant + DBits), d), d),
           -(Mant + DBits + 1))

\* x + y: the significands xm, ym aligned to the smaller exponent e, then
\* added or subtracted exactly and rounded
FAddSum(x, y, xm, ym, less, e) ==
    FRound(IF x.sign # y.sign /\ less THEN y.sign ELSE x.sign,
           IF x.sign = y.sign THEN BAdd(xm, ym)
           ELSE IF less THEN BSub(ym, xm) ELSE BSub(xm, ym),
           e)
FAddAligned(x, y, xm, ym, e) == FAddSum(x, y, xm, ym, BLess(xm, ym), e)
FAdd(x, y) ==
    IF x.m = <<>> THEN y
    ELSE IF y.m = <<>> THEN x
    ELSE FAddAligned(x, y, BShl(x.m, x.e - Min(x.e, y.e)),
                     BShl(y.m, y.e - Min(x.e, y.e)), Min(x.e, y.e))
FNeg(x) == [x EXCEPT !.sign = -x.sign]

\* int(x): truncation toward zero (|x| < 2^31)
FTruncInt(x) ==
    IF x.m = <<>> THEN 0
    ELSE x.sign * BToInt(IF x.e >= 0 THEN BShl(x.m, x.e) ELSE BShr(x.m, -x.e))

\* factors i / n, which never reach 1 (np.linspace without its endpoint)
LinspaceNoEndpoint(n, i) == FMulInt(i, FRecip(n))

\* np.linspace(0, 1, n)[i]: arange(n) * (1.0 / (n - 1)), last element set to
\* the stop value, and [0.] when n = 1 (no step is computed).
Linspace(n, i) ==
    IF n = 1 THEN FZero
    ELSE IF i = n - 1 THEN FFromInt(1)
    ELSE FMulInt(i, FRecip(n - 1))

\* int(c1 * (1 - factor) + c2 * factor)        transformers.py:53-55
GradChannel(c1, c2, factor) ==
    FTruncInt(FAdd(FMulInt(c1, FAdd(FFromInt(1), FNeg(factor))),
                   FMulInt(c2, factor)))

\* ------------------------------------------------------------ colour strings
\* A Python str is a sequence of one-character strings.
HexChars == <<"0", "1", "2", "3", "4", "5", "6", "7", "8", "9",
              "a", "b", "c", "d", "e", "f">>
UpperHex == <<"0", "1", "2", "3", "4", "5", "6", "7", "8", "9",
              "A", "B", "C", "D", "E", "F">>
IsHexDigit(c) == \E i \in 1..16 : HexChars[i] = c \/ UpperHex[i] = c
HexVal(c) == (CHOOSE i \in 1..16 : HexChars[i] = c \/ UpperHex[i] = c) - 1
IsSpace(c) == c \in {" ", "\t", "\n"}

\* s[a:b] with Python's clipping of the bounds (0 <= a <= b)
Slice(s, a, b) ==
    IF a >= Len(s) THEN <<>> ELSE SubSeq(s, a + 1, Min(b, Len(s)))

RECURSIVE LStrip(_)
LStrip(s) == IF s # <<>> /\ IsSpace(Head(s)) THEN LStrip(Tail(s)) ELSE s
RECURSIVE RStrip(_)
RStrip(s) ==
    IF s # <<>> /\ IsSpace(s[Len(s)]) THEN RStrip(SubSeq(s, 1, Len(s) - 1))
    ELSE s

\* the digit part of an int literal: hex digits, single underscores only
\* between digits (or directly after a base prefix)
DigitsOK(d, afterPrefix) ==
    /\ d # <<>>
    /\ \A i \in 1..Len(d) : IsHexDigit(d[i]) \/ d[i] = "_"
    /\ d[Len(d)] # "_"
    /\ (d[1] = "_" => afterPrefix)
    /\ \A i \in 1..(Len(d) - 1) : ~(d[i] = "_" /\ d[i + 1] = "_")
RECURSIVE DigitsVal(_, _)
DigitsVal(d, acc) ==
    IF d = <<>> THEN acc
    ELSE IF Head(d) = "_" THEN DigitsVal(Tail(d), acc)
    ELSE DigitsVal(Tail(d), 16 * acc + HexVal(Head(d)))

\* int(s, 16): surrounding whitespace stripped, optional sign, optional
\* 0x / 0X prefix, then the digits.  t is the stripped literal, u the literal
\* after its sign.
HasSign(t) == t # <<>> /\ t[1] \in {"+", "-"}
Unsigned(t) == IF HasSign(t) THEN Tail(t) ELSE t
HasPrefix(u) == Len(u) >= 2 /\ u[1] = "0" /\ u[2] \in {"x", "X"}
Digits(u) == IF HasPrefix(u) THEN SubSeq(u, 3, Len(u)) ELSE u
LiteralOK(u) == DigitsOK(Digits(u), HasPrefix(u))
LiteralVal(t) ==
    (IF HasSign(t) /\ t[1] = "-" THEN -1 ELSE 1)
    * DigitsVal(Digits(Unsigned(t)), 0)
\* PyInt16OK: no ValueError is raised
PyInt16OK(s) == LiteralOK(Unsigned(RStrip(LStrip(s))))
PyInt16(s) == LiteralVal(RStrip(LStrip(s)))

\* tuple(int(color[i:i+2], 16) for i in (1, 3, 5))
\*                                   transformers.py:35-36, 107, 170, 197
\* ParseOK: none of the three conversions raises ValueError
ParseOK(color) ==
    \A i \in {1, 3, 5} : PyInt16OK(Slice(color, i, i + 2))
ParseHex(color) ==
    <<PyInt16(Slice(color, 1, 3)), PyInt16(Slice(color, 3, 5)),
      PyInt16(Slice(color, 5, 7))>>

\* the documented colour format "#RRGGBB": '#' and exactly six hex digits
IsHexColor(color) ==
    /\ Len(color) = 7
    /\ color[1] = "#"
    /\ \A i \in 2..7 : IsHexDigit(color[i])

\* ------------------------------------------------------------------- images
\* An RGBA image: size and one <<r, g, b, a>> per pixel <<x, y>>.
Pixels(w, h) == (0..(w - 1)) \X (0..(h - 1))
NewImage(w, h, fill) == [w |-> w, h |-> h, px |-> [p \in Pixels(w, h) |-> fill]]
\* Image.new('RGBA', size) without a colour
Blank(w, h) == NewImage(w, h, <<0, 0, 0, 0>>)

\* ink channels are clipped to a byte when a pixel is drawn
Clip8(v) == IF v < 0 THEN 0 ELSE IF v > 255 THEN 255 ELSE v
Ink(rgb, alpha) == <<Clip8(rgb[1]), Clip8(rgb[2]), Clip8(rgb[3]), alpha>>
\* a pixel from the four channel values f[1..4]
RGBA(f) == <<f[1], f[2], f[3], f[4]>>

\* Pillow's AlphaComposite.c on one pixel: src drawn over dst
ShiftForDiv255(a) == (((a \div 256) + a) \div 256)
BlendChannel(d, s, coef1) ==
    ShiftForDiv255(s * coef1 + d * (255 * 128 - coef1) + 128 * 128) \div 128
BlendPixel(dst, src, outa255, coef1) ==
    <<BlendChannel(dst[1], src[1], coef1), BlendChannel(dst[2], src[2], coef1),
      BlendChannel(dst[3], src[3], coef1), ShiftForDiv255(outa255 + 128)>>
BlendAlpha(dst, src, outa255) ==
    BlendPixel(dst, src, outa255, (src[4] * 255 * 255 * 128) \div outa255)
CompositePixel(dst, src) ==
    IF src[4] = 0 THEN dst
    ELSE BlendAlpha(dst, src, src[4] * 255 + dst[4] * (255 - src[4]))

\* Image.alpha_composite(im1, im2): im2 over im1.  Every layer is built with
\* the size of the image it is composited with, so the sizes always agree.
AlphaComposite(im1, im2) ==
    [im1 EXCEPT !.px = [p \in DOMAIN im1.px |->
                           CompositePixel(im1.px[p], im2.px[p])]]

\* ------------------------------------------------------- BannerTransformer
\* Every method below yields the exception it raises (or None) and the
\* self.image it leaves, which is the old one when it raises.
Ok(im) == [exc |-> None, image |-> im]
Raise(e, im) == [exc |-> e, image |-> im]

\* opacity is carried in percent; int(255 * opacity) truncates
OpacityAlpha(pct) == (255 * pct) \div 100

\* apply_gradient                                   transformers.py:22-59
\* the colour of one column (horizontal) or row (vertical), the line of
\* colours along the axis of n pixels, and the image painted with it
GradientColor(start_rgb, end_rgb, factor) ==
    RGBA([c \in 1..4 |->
            IF c = 4 THEN 255
            ELSE Clip8(GradChannel(start_rgb[c], end_rgb[c], factor))])
GradientLine(n, start_rgb, end_rgb) ==
    [i \in 0..(n - 1) |-> GradientColor(start_rgb, end_rgb, Linspace(n, i))]
GradientPaint(w, h, direction, col) ==
    [w |-> w, h |-> h,
     px |-> [p \in Pixels(w, h) |->
                col[IF direction = "horizontal" THEN p[1] ELSE p[2]]]]
GradientImage(w, h, start_rgb, end_rgb, direction) ==
    GradientPaint(w, h, direction,
                  GradientLine(IF direction = "horizontal" THEN w ELSE h,
                               start_rgb, end_rgb))

\* the gradient drawn over the image instead of under it
apply_gradient_on_top(im, start_color, end_color, direction) ==
    IF ~ParseOK(start_color) \/ ~ParseOK(end_color)
    THEN Raise(ValueError, im)
    ELSE Ok(AlphaComposite(
             im, GradientImage(im.w, im.h, ParseHex(start_color),
                               ParseHex(end_color), direction)))

apply_gradient(im, start_color, end_color, direction) ==
    IF ~ParseOK(start_color) \/ ~ParseOK(end_color)
    THEN Raise(ValueError, im)
    ELSE Ok(AlphaComposite(
             GradientImage(im.w, im.h, ParseHex(start_color),
                           ParseHex(end_color), direction), im))

\* GaussianBlur of Pillow.  The kernel is library code; it is a normalised
\* convolution with replicated edges, so each output channel lies between the
\* least and the greatest value of that channel in the input, and radius 0
\* returns a copy.  Which value in that range a pixel gets is an input (pick).
BlurPicks == {"lo", "mid", "hi"}
SetMin(vals) == CHOOSE v \in vals : \A u \in vals : v <= u
SetMax(vals) == CHOOSE v \in vals : \A u \in vals : v >= u
ChanMin(im, c) == SetMin({im.px[p][c] : p \in DOMAIN im.px})
ChanMax(im, c) == SetMax({im.px[p][c] : p \in DOMAIN im.px})
Blurred(lo, hi, pick) ==
    IF pick = "lo" THEN lo ELSE IF pick = "hi" THEN hi ELSE (lo + hi) \div 2
\* every pixel of im set to one colour
Flat(im, color) == [im EXCEPT !.px = [p \in DOMAIN im.px |-> color]]
GaussianBlur(im, radius, pick) ==
    IF radius = 0 THEN im
    ELSE Flat(im, RGBA([c \in 1..4 |->
                          Blurred(ChanMin(im, c), ChanMax(im, c), pick)]))

\* The random sources (np.random, random) are inputs: a seed selects one of a
\* few per-pixel fields of draws, each draw being low, middle or high in the
\* generator's range.
Seeds == 0..2
Draw(seed, p) == ((seed + p[1] + 2 * p[2]) % 3) + 1
\* np.random.randint(0, 255): 0..254
NoiseLevels == <<0, 127, 254>>
\* np.clip(np.random.normal(127, 20), 0, 255).astype(uint8)
GrainLevels == <<0, 127, 255>>
\* random.randint(200, 255): 200..255
PaperLevels == <<200, 227, 255>>

\* a mode 'L' image converted to RGBA
Luma(l) == <<l, l, l, 255>>
LumaImage(w, h, levels, seed) ==
    [w |-> w, h |-> h,
     px |-> [p \in Pixels(w, h) |-> Luma(levels[Draw(seed, p)])]]

\* _create_paper_texture: the blurred field converted to mode 'L' and back
\*                                                  transformers.py:222-241
Grey(im) == [im EXCEPT !.px = [p \in DOMAIN im.px |-> Luma(im.px[p][1])]]
create_paper_texture(w, h, seed, pick) ==
    Grey(GaussianBlur(LumaImage(w, h, PaperLevels, seed), 1, pick))

\* the generator apply_texture runs for a texture_type, "none" when no branch
\* of the if/elif chain matches
TextureGenerator(texture_type) ==
    IF texture_type \in {"noise", "grain", "paper"} THEN texture_type
    ELSE "none"
\* random values consumed by the generator
TextureDraws(texture_type, w, h) ==
    IF TextureGenerator(texture_type) = "none" THEN 0 ELSE w * h

\* the layer apply_texture builds: the generated texture (the blank buffer
\* when no generator ran) with its alpha set from the opacity
\*                                                  transformers.py:71-88
Texture(w, h, gen, seed, pick) ==
    IF gen = "noise" THEN LumaImage(w, h, NoiseLevels, seed)
    ELSE IF gen = "grain" THEN LumaImage(w, h, GrainLevels, seed)
    ELSE IF gen = "paper" THEN create_paper_texture(w, h, seed, pick)
    ELSE Blank(w, h)
WithAlpha(im, alpha) ==
    [im EXCEPT !.px = [p \in DOMAIN im.px |-> 
        <<im.px[p][1], im.px[p][2], im.px[p][3], alpha>>]]
TextureLayer(w, h, texture_type, opacity, seed, pick) ==
    WithAlpha(Texture(w, h, TextureGenerator(texture_type), seed, pick),
              OpacityAlpha(opacity))

\* apply_texture                                    transformers.py:61-91
apply_texture(im, texture_type, opacity, seed, pick) ==
    Ok(AlphaComposite(im, TextureLayer(im.w, im.h, texture_type, opacity,
                                       seed, pick)))

\* apply_overlay                                    transformers.py:93-114
OverlayLayer(w, h, rgb, opacity) ==
    NewImage(w, h, Ink(rgb, OpacityAlpha(opacity)))
\* the overlay put under the image instead of over it
apply_overlay_under(im, color, opacity) ==
    IF ~ParseOK(color) THEN Raise(ValueError, im)
    ELSE Ok(AlphaComposite(
             OverlayLayer(im.w, im.h, ParseHex(color), opacity), im))

apply_overlay(im, color, opacity) ==
    IF ~ParseOK(color) THEN Raise(ValueError, im)
    ELSE Ok(AlphaComposite(
             im, OverlayLayer(im.w, im.h, ParseHex(color), opacity)))

\* apply_blur                                       transformers.py:143-150
apply_blur(im, radius, pick) == Ok(GaussianBlur(im, radius, pick))

\* apply_drop_shadow: the image pasted at the offset on a transparent
\* buffer, blurred, filled with the shadow colour under the blurred alpha,
\* and the image composited over it                 transformers.py:152-182
Pasted(im, offset) ==
    [im EXCEPT !.px = [p \in DOMAIN im.px |->
        IF <<p[1] - offset[1], p[2] - offset[2]>> \in DOMAIN im.px
        THEN im.px[<<p[1] - offset[1], p[2] - offset[2]>>]
        ELSE <<0, 0, 0, 0>>]]
Tinted(im, rgb) ==
    [im EXCEPT !.px = [p \in DOMAIN im.px |-> Ink(rgb, im.px[p][4])]]
ShadowLayer(im, offset, rgb, blur_radius, pick) ==
    Tinted(GaussianBlur(Pasted(im, offset), blur_radius, pick), rgb)
\* the shadow drawn over the image instead of under it
apply_drop_shadow_on_top(im, offset, shadow_color, blur_radius, pick) ==
    IF ~ParseOK(shadow_color) THEN Raise(ValueError, im)
    ELSE Ok(AlphaComposite(
             AlphaComposite(Blank(im.w, im.h), im),
             ShadowLayer(im, offset, ParseHex(shadow_color),
                         blur_radius, pick)))

apply_drop_shadow(im, offset, shadow_color, blur_radius, pick) ==
    IF ~ParseOK(shadow_color) THEN Raise(ValueError, im)
    ELSE Ok(AlphaComposite(
             AlphaComposite(Blank(im.w, im.h),
                            ShadowLayer(im, offset, ParseHex(shadow_color),
                                        blur_radius, pick)),
             im))

\* apply_border: ImageDraw.rectangle draws nothing for width 0, else `width`
\* nested one-pixel frames inside (0,0)-(w-1,h-1)   transformers.py:184-202
OnBorder(im, width, p) ==
    \/ p[1] < width
    \/ p[2] < width
    \/ p[1] > im.w - 1 - width
    \/ p[2] > im.h - 1 - width
Framed(im, width, ink) ==
    [im EXCEPT !.px = [p \in DOMAIN im.px |->
        IF OnBorder(im, width, p) THEN ink ELSE im.px[p]]]
\* a rectangle whose outline is never thinner than one pixel
apply_border_min_one(im, width, color) ==
    IF ~ParseOK(color) THEN Raise(ValueError, im)
    ELSE Ok(Framed(im, Max(width, 1), Ink(ParseHex(color), 255)))

apply_border(im, width, color) ==
    IF ~ParseOK(color) THEN Raise(ValueError, im)
    ELSE Ok(Framed(im, width, Ink(ParseHex(color), 255)))

\* apply_glow: ImageEnhance.Brightness blends the blurred copy with black,
\* keeping its alpha; intensity in percent (0..100) transformers.py:204-220
Brightness(im, intensity) ==
    [im EXCEPT !.px = [p \in DOMAIN im.px |->
        <<(im.px[p][1] * intensity) \div 100,
          (im.px[p][2] * intensity) \div 100,
          (im.px[p][3] * intensity) \div 100, im.px[p][4]>>]]
\* the glow drawn over the image instead of under it
apply_glow_on_top(im, spread, intensity, pick) ==
    Ok(AlphaComposite(im,
                      Brightness(GaussianBlur(im, spread, pick), intensity)))

apply_glow(im, spread, intensity, pick) ==
    Ok(AlphaComposite(Brightness(GaussianBlur(im, spread, pick), intensity),
                      im))

\* one iteration of the loop of apply_effects       transformers.py:124-141
ApplyEffect(im, effect, params, pick) ==
    IF effect = "blur" THEN apply_blur(im, GetOr(params, "radius", 2), pick)
    ELSE IF effect = "shadow"
    THEN apply_drop_shadow(im, GetOr(params, "offset", <<5, 5>>),
                           GetOr(params, "shadow_color",
                                 <<"#", "0", "0", "0", "0", "0", "0">>),
                           GetOr(params, "blur_radius", 3), pick)
    ELSE IF effect = "border"
    THEN apply_border(im, GetOr(params, "width", 2),
                      GetOr(params, "color",
                            <<"#", "0", "0", "0", "0", "0", "0">>))
    ELSE IF effect = "glow"
    THEN apply_glow(im, GetOr(params, "spread", 20),
                    GetOr(params, "intensity", 50), pick)
    ELSE Ok(im)

\* the names apply_effects has a branch for
KnownEffects == {"blur", "shadow", "border", "glow"}

\* the entries visited kind by kind (blur, shadow, border, glow, then the
\* rest) instead of in the order of the dictionary
IndexOf(effects, name) ==
    IF HasKey(effects, name)
    THEN <<CHOOSE i \in 1..Len(effects) : effects[i][1] = name>>
    ELSE <<>>
EffectOrderByKind(effects) ==
    LET Unknown(i) == effects[i][1] \notin KnownEffects
    IN  IndexOf(effects, "blur") \o IndexOf(effects, "shadow")
        \o IndexOf(effects, "border") \o IndexOf(effects, "glow")
        \o SelectSeq([i \in 1..Len(effects) |-> i], Unknown)

\* the order in which apply_effects visits the entries: effects.items()
EffectOrder(effects) == [i \in 1..Len(effects) |-> i]

\* apply_effects: the entries one after another, each on the image left by
\* the one before; an exception ends the loop.  Yields the exception (or
\* None), the image, the names of the effect methods called, in call order,
\* and the image each call started from.
\*                                                  transformers.py:116-141
RECURSIVE RunEffects(_, _, _, _, _, _)
\* what follows the call made for the entry at the head of order
AfterEffect(im, effects, order, pick, ran, inputs, out) ==
    IF out.exc # None
    THEN [exc |-> out.exc, image |-> im, ran |-> ran, inputs |-> inputs]
    ELSE RunEffects(out.image, effects, Tail(order), pick, ran, inputs)
RunEntry(im, effects, order, pick, ran, inputs, entry) ==
    AfterEffect(im, effects, order, pick,
                IF entry[1] \in KnownEffects THEN Append(ran, entry[1])
                ELSE ran,
                IF entry[1] \in KnownEffects THEN Append(inputs, im)
                ELSE inputs,
                ApplyEffect(im, entry[1], entry[2], pick))
RunEffects(im, effects, order, pick, ran, inputs) ==
    IF order = <<>>
    THEN [exc |-> None, image |-> im, ran |-> ran, inputs |-> inputs]
    ELSE RunEntry(im, effects, order, pick, ran, inputs, effects[Head(order)])
apply_effects(im, effects, pick) ==
    RunEffects(im, effects, EffectOrder(effects), pick, <<>>, <<>>)

\* ------------------------------------------------------------ StylePresets
Hex(a, b, c, d, e, f) == <<"#", a, b, c, d, e, f>>

\* StylePresets.modern                              transformers.py:257-274
modern ==
    << <<"gradient", << <<"start_color", Hex("4", "3", "6", "1", "e", "e")>>,
                        <<"end_color", Hex("3", "f", "3", "7", "c", "9")>>,
                        <<"direction", "horizontal">> >> >>,
       <<"effects", << <<"shadow", << <<"offset", <<5, 5>> >>,
                                      <<"blur_radius", 3>> >> >>,
                       <<"border", << <<"width", 0>> >> >> >> >> >>

\* StylePresets.vintage                             transformers.py:276-293
vintage ==
    << <<"overlay", << <<"color", Hex("f", "4", "a", "2", "6", "1")>>,
                       <<"opacity", 30>> >> >>,
       <<"texture", << <<"type", "paper">>,
                       <<"opacity", 20>> >> >>,
       <<"effects", << <<"border", << <<"width", 5>>,
                                      <<"color", Hex("e", "7", "6", "f", "5", "1")>>
                                   >> >> >> >> >>

\* StylePresets.minimalist                          transformers.py:295-309
minimalist ==
    << <<"gradient", << <<"start_color", Hex("f", "f", "f", "f", "f", "f")>>,
                        <<"end_color", Hex("f", "8", "f", "9", "f", "a")>>,
                        <<"direction", "vertical">> >> >>,
       <<"effects", << <<"border", << <<"width", 2>>,
                                      <<"color", Hex("2", "b", "2", "d", "4", "2")>>
                                   >> >> >> >> >>

\* StylePresets.bold                                transformers.py:311-325
bold ==
    << <<"gradient", << <<"start_color", Hex("2", "b", "2", "d", "4", "2")>>,
                        <<"end_color", Hex("8", "d", "9", "9", "a", "e")>>,
                        <<"direction", "horizontal">> >> >>,
       <<"effects", << <<"glow", << <<"spread", 20>>,
                                    <<"intensity", 60>> >> >> >> >> >>

PresetNames == {"modern", "vintage", "minimalist", "bold"}
Preset(name) ==
    IF name = "vintage" THEN vintage
    ELSE IF name = "minimalist" THEN minimalist
    ELSE IF name = "bold" THEN bold
    ELSE modern

\* What getattr(StylePresets, style, StylePresets.modern) finds for names
\* that are attributes of the class without being presets:
\*   a value that cannot be called (the docstring, the module name, ...),
NotCallableAttrs == {"__doc__", "__module__", "__name__", "__qualname__",
                     "__dict__", "__weakref__"}
\*   a callable that raises TypeError when called without arguments,
NeedArgsAttrs == {"__class__", "__init__", "__new__", "__eq__", "__sizeof__"}
\*   a callable returning a list (of classes),
ListAttrs == {"__subclasses__", "mro"}
\*   a callable returning None or NotImplemented.
NoContainerAttrs == {"__init_subclass__", "__subclasshook__"}

\* getattr(StylePresets, style, StylePresets.modern)()        app.py:70
\* kind "dict": a preset plan; "list": a list, in which no key is found;
\* "other": a value on which the `in` tests raise TypeError.
ResolveStyle(style) ==
    IF style \in NotCallableAttrs \cup NeedArgsAttrs
    THEN [exc |-> TypeError, kind |-> "other", items |-> <<>>]
    ELSE IF style \in ListAttrs
    THEN [exc |-> None, kind |-> "list", items |-> <<>>]
    ELSE IF style \in NoContainerAttrs
    THEN [exc |-> None, kind |-> "other", items |-> <<>>]
    ELSE [exc |-> None, kind |-> "dict", items |-> Preset(style)]

\* binding **kwargs to a method's parameters: TypeError on a keyword the
\* method does not have or on a missing parameter without default
BindOK(kwargs, accepted, required) ==
    /\ Keys(kwargs) \subseteq accepted
    /\ required \subseteq Keys(kwargs)

\* ---------------------------------------------------------- generate_banner
NoImage == [w |-> 0, h |-> 0, px |-> <<>>]
NoPreset == [kind |-> "unset", items |-> <<>>]
NoCall == [op |-> "none"]

RequiredFields == {"width", "height", "style"}

\* a validation that also turns away the largest allowed side
validate_rejecting_max(req) ==
    IF ~(RequiredFields \subseteq req.fields) THEN ValueError
    ELSE IF req.width <= 0 \/ req.height <= 0 THEN ValueError
    ELSE IF req.width >= MAX_DIM \/ req.height >= MAX_DIM THEN ValueError
    ELSE None

\* validate_banner_request: the exception raised, None when the request
\* passes                                                     app.py:38-54
validate_banner_request(req) ==
    IF ~(RequiredFields \subseteq req.fields) THEN ValueError
    ELSE IF req.width <= 0 \/ req.height <= 0 THEN ValueError
    ELSE IF req.width > MAX_DIM \/ req.height > MAX_DIM THEN ValueError
    ELSE None

\* ValueError is answered with 400, any other exception with 500
\*                                                            app.py:96-100
StatusOf(exc) == IF exc = ValueError THEN 400 ELSE 500

\* the stages taken in the order in which vintage declares its keys
StageOrderAsDeclared == <<"gradient", "overlay", "texture", "effects">>

\* the textual order of the four `if ... in style_preset` statements
\*                                                            app.py:73-80
StageOrder == <<"gradient", "texture", "overlay", "effects">>
FirstStage == StageOrder[1]
NextStage(stage) ==
    LET i == CHOOSE k \in 1..Len(StageOrder) : StageOrder[k] = stage
    IN  IF i = Len(StageOrder) THEN "save" ELSE StageOrder[i + 1]

Respond(status) ==
    /\ pc' = "done"
    /\ response' = status

\* request = request.get_json(); validate_banner_request      app.py:60-61
Validate ==
    /\ pc = "start"
    /\ UNCHANGED server
    /\ IF validate_banner_request(request) # None
       THEN Respond(StatusOf(validate_banner_request(request)))
       ELSE pc' = "validated" /\ UNCHANGED response
    /\ UNCHANGED <<request, image, style_preset, stages, last, rngDraws>>

\* Image.new('RGBA', (width, height), (255, 255, 255, 0)) and the
\* BannerTransformer built on it                              app.py:64-67
CreateImage ==
    /\ pc = "validated"
    /\ UNCHANGED server
    /\ image' = NewImage(request.width, request.height, <<255, 255, 255, 0>>)
    /\ pc' = "created"
    /\ UNCHANGED <<request, style_preset, stages, last, rngDraws, response>>

\* style_preset = getattr(StylePresets, style, StylePresets.modern)()
\*                                                            app.py:70
GetStylePreset ==
    /\ pc = "created"
    /\ UNCHANGED server
    /\ LET r == ResolveStyle(request.style)
       IN  IF r.exc # None
           THEN Respond(StatusOf(r.exc)) /\ UNCHANGED style_preset
           ELSE /\ style_preset' = [kind |-> r.kind, items |-> r.items]
                /\ pc' = FirstStage
                /\ UNCHANGED response
    /\ UNCHANGED <<request, image, stages, last, rngDraws>>

\* A stage: `if key in style_preset: transformer.apply_x(...)`.  The test
\* raises TypeError on a value that is no container; the call raises
\* TypeError when the keywords do not fit the method.
StageSkipped(key) ==
    style_preset.kind # "other" /\ ~HasKey(style_preset.items, key)
StageTypeError(key, accepted, required) ==
    \/ style_preset.kind = "other"
    \/ /\ HasKey(style_preset.items, key)
       /\ ~BindOK(Get(style_preset.items, key), accepted, required)

\* what a stage leaves behind once its method returned or raised
Finish(stage, r, call, draws) ==
    /\ image' = r.image
    /\ last' = call
    /\ rngDraws' = rngDraws + draws
    /\ stages' = Append(stages, stage)
    /\ IF r.exc # None THEN Respond(StatusOf(r.exc))
       ELSE pc' = NextStage(stage) /\ UNCHANGED response
    /\ UNCHANGED <<request, style_preset>>

Skip(stage) ==
    /\ pc' = NextStage(stage)
    /\ UNCHANGED <<request, image, style_preset, stages, last, rngDraws,
                   response>>

StageRaises(stage) ==
    /\ Respond(500)
    /\ stages' = IF style_preset.kind = "other" THEN stages
                 ELSE Append(stages, stage)
    /\ UNCHANGED <<request, image, style_preset, last, rngDraws>>

\* the record kept of a method call
GradientCall(im, start_color, end_color, direction, r) ==
    [op |-> "gradient", before |-> im, start_color |-> start_color,
     end_color |-> end_color, direction |-> direction, exc |-> r.exc]
TextureCall(im, texture_type, opacity, seed, pick, r) ==
    [op |-> "texture", before |-> im, texture_type |-> texture_type,
     opacity |-> opacity, seed |-> seed, pick |-> pick, exc |-> r.exc,
     draws |-> TextureDraws(texture_type, im.w, im.h)]
OverlayCall(im, color, opacity, r) ==
    [op |-> "overlay", before |-> im, color |-> color, opacity |-> opacity,
     exc |-> r.exc]
EffectsCall(im, effects, pick, r) ==
    [op |-> "effects", before |-> im, effects |-> effects, pick |-> pick,
     exc |-> r.exc, ran |-> r.ran, inputs |-> r.inputs]

\* if 'gradient' in style_preset:
\*     transformer.apply_gradient(**style_preset['gradient'])  app.py:73-74
GradientReturn(sc, ec, d, r) ==
    Finish("gradient", r, GradientCall(image, sc, ec, d, r), 0)
GradientStage ==
    /\ pc = "gradient"
    /\ UNCHANGED server
    /\ IF StageSkipped("gradient") THEN Skip("gradient")
       ELSE IF StageTypeError("gradient",
                              {"start_color", "end_color", "direction"},
                              {"start_color", "end_color"})
       THEN StageRaises("gradient")
       ELSE LET kw == Get(style_preset.items, "gradient")
                sc == Get(kw, "start_color")
                ec == Get(kw, "end_color")
                d  == GetOr(kw, "direction", "horizontal")
            IN  GradientReturn(sc, ec, d, apply_gradient(image, sc, ec, d))

\* if 'texture' in style_preset:
\*     transformer.apply_texture(**style_preset['texture'])    app.py:75-76
TextureReturn(t, o, seed, pick, r) ==
    Finish("texture", r, TextureCall(image, t, o, seed, pick, r),
           TextureDraws(t, image.w, image.h))
TextureStage ==
    /\ pc = "texture"
    /\ UNCHANGED server
    /\ IF StageSkipped("texture") THEN Skip("texture")
       ELSE IF StageTypeError("texture", {"texture_type", "opacity"}, {})
       THEN StageRaises("texture")
       ELSE \E seed \in Seeds, pick \in BlurPicks :
            LET kw == Get(style_preset.items, "texture")
                t  == GetOr(kw, "texture_type", "noise")
                o  == GetOr(kw, "opacity", 20)
            IN  TextureReturn(t, o, seed, pick,
                              apply_texture(image, t, o, seed, pick))

\* if 'overlay' in style_preset:
\*     transformer.apply_overlay(**style_preset['overlay'])    app.py:77-78
OverlayReturn(c, o, r) ==
    Finish("overlay", r, OverlayCall(image, c, o, r), 0)
OverlayStage ==
    /\ pc = "overlay"
    /\ UNCHANGED server
    /\ IF StageSkipped("overlay") THEN Skip("overlay")
       ELSE IF StageTypeError("overlay", {"color", "opacity"}, {"color"})
       THEN StageRaises("overlay")
       ELSE LET kw == Get(style_preset.items, "overlay")
                c  == Get(kw, "color")
                o  == GetOr(kw, "opacity", 30)
            IN  OverlayReturn(c, o, apply_overlay(image, c, o))

\* if 'effects' in style_preset:
\*     transformer.apply_effects(style_preset['effects'])      app.py:79-80
EffectsReturn(fx, pick, r) ==
    Finish("effects", r, EffectsCall(image, fx, pick, r), 0)
EffectsStage ==
    /\ pc = "effects"
    /\ UNCHANGED server
    /\ IF StageSkipped("effects") THEN Skip("effects")
       ELSE IF style_preset.kind = "other" THEN StageRaises("effects")
       ELSE \E pick \in BlurPicks :
            LET fx == Get(style_preset.items, "effects")
            IN  EffectsReturn(fx, pick, apply_effects(image, fx, pick))

\* the text block draws nothing; the image is saved and answered with 200
\*                                                            app.py:82-94
Save ==
    /\ pc = "save"
    /\ UNCHANGED server
    /\ Respond(200)
    /\ UNCHANGED <<request, image, style_preset, stages, last, rngDraws>>

\* ------------------------------------------------------------------ inputs
ValidWidths == 1..MaxWidth
ValidHeights == 1..MaxHeight
BadSides == {-1, 0, MAX_DIM + 1, 5000}
Styles == PresetNames \cup {"nonexistent-style", "Modern", "__doc__",
                            "__class__", "__subclasses__", "__init_subclass__"}
AllFields == {"width", "height", "style"}

Request(w, h, style, fields) ==
    [width |-> w, height |-> h, style |-> style, fields |-> fields]
\* requests with small or invalid sides, a canvas that the shadow offset
\* (5, 5) of modern does not push the pasted copy out of, requests at the
\* largest allowed side, and requests lacking a field
Requests ==
    {Request(w, h, st, AllFields) :
        w \in ValidWidths \cup BadSides, h \in ValidHeights \cup BadSides,
        st \in Styles}
    \cup {Request(6, 6, "modern", AllFields),
          Request(MAX_DIM, 1, "minimalist", AllFields),
          Request(1, MAX_DIM, "__subclasses__", AllFields),
          Request(MAX_DIM, MAX_DIM + 1, "modern", AllFields),
          Request(MAX_DIM + 1, MAX_DIM, "modern", AllFields)}
    \cup {Request(1, 1, "modern", AllFields \ {f}) : f \in AllFields}
NoRequest == Request(0, 0, "", {})

\* images a BannerTransformer is constructed on: the fresh canvas of
\* generate_banner, an opaque picture, a half-transparent one and one whose
\* alpha differs from pixel to pixel
AlphaLevels == <<0, 128, 255>>
SampleImage(w, h, kind) ==
    [w |-> w, h |-> h,
     px |-> [p \in Pixels(w, h) |->
        IF kind = "fresh" THEN <<255, 255, 255, 0>>
        ELSE IF kind = "opaque"
        THEN <<(90 * p[1] + 10) % 256, (70 * p[2] + 20) % 256, 200, 255>>
        ELSE IF kind = "half" THEN <<10, 20, 30, 128>>
        ELSE <<200, (100 * p[1]) % 256, 50, AlphaLevels[((p[1] + p[2]) % 3) + 1]>>]]
SampleImages ==
    {SampleImage(w, h, k) : w \in ValidWidths, h \in ValidHeights,
                            k \in {"fresh", "opaque", "half", "mixed"}}

\* colour strings: well-formed ones, and one of them with a character
\* removed, inserted or replaced
BaseColor == Hex("4", "3", "6", "1", "e", "e")
ValidColors == {BaseColor,
                Hex("0", "0", "0", "0", "0", "0"),
                Hex("f", "f", "f", "f", "f", "f"),
                Hex("0", "1", "1", "9", "F", "F"),
                Hex("f", "8", "0", "0", "4", "3")}
OddChars == {"g", " ", "-", "_"}
Removed(c, i) == SubSeq(c, 1, i - 1) \o SubSeq(c, i + 1, Len(c))
Inserted(c, i, ch) == SubSeq(c, 1, i) \o <<ch>> \o SubSeq(c, i + 1, Len(c))
Replaced(c, i, ch) == [c EXCEPT ![i] = ch]
MutatedColors ==
    {Removed(BaseColor, i) : i \in 1..7}
    \cup {Inserted(BaseColor, i, ch) : i \in 0..7, ch \in OddChars}
    \cup {Replaced(BaseColor, i, ch) : i \in 1..7, ch \in OddChars}
    \cup {<<>>, <<"#", "f", "f", "f">>, <<"#", "4", "3", "6", "1", "e">>}

Directions == {"horizontal", "vertical", "diagonal"}
\* <<start_color, end_color, direction>>
GradientArgs ==
    (ValidColors \X ValidColors \X Directions)
    \cup (MutatedColors \X {BaseColor} \X {"horizontal"})
    \cup ({BaseColor} \X MutatedColors \X {"vertical"})
Opacities == {0, 20, 30, 100}
\* <<color, opacity>>
OverlayArgs ==
    (ValidColors \X Opacities) \cup (MutatedColors \X {30})
TextureTypes == {"noise", "grain", "paper", "marble", ""}
\* <<texture_type, opacity, seed, pick>>; only paper is blurred
TextureArgs ==
    {a \in TextureTypes \X Opacities \X Seeds \X BlurPicks :
        a[1] = "paper" \/ a[4] = "mid"}

\* effects dictionaries handed to apply_effects: those of the presets, pairs
\* of effects in both orders, an unknown name, a malformed colour
Red == Hex("f", "f", "0", "0", "0", "0")
BorderFx(width, color) == <<"border", << <<"width", width>>, <<"color", color>> >> >>
BlurFx(radius) == <<"blur", << <<"radius", radius>> >> >>
ShadowFx(dx, dy, radius) ==
    <<"shadow", << <<"offset", <<dx, dy>> >>, <<"shadow_color", Red>>,
                   <<"blur_radius", radius>> >> >>
GlowFx(spread, intensity) ==
    <<"glow", << <<"spread", spread>>, <<"intensity", intensity>> >> >>
EffectConfigs ==
    {Get(modern, "effects"), Get(vintage, "effects"),
     Get(minimalist, "effects"), Get(bold, "effects"),
     <<>>,
     <<BorderFx(1, Red), BlurFx(2)>>, <<BlurFx(2), BorderFx(1, Red)>>,
     <<ShadowFx(1, 0, 0), BorderFx(1, BaseColor)>>,
     <<BorderFx(1, BaseColor), ShadowFx(1, 0, 0)>>,
     <<GlowFx(1, 50), BlurFx(0)>>, <<BlurFx(1), GlowFx(1, 50)>>,
     <<ShadowFx(0, 1, 2), GlowFx(0, 100), BorderFx(0, Red)>>,
     <<BorderFx(0, BaseColor), BorderFx(2, Red)>>,
     <<BorderFx(0, <<"#", "f", "f", "f">>)>>,
     << <<"sepia", <<>> >>, BlurFx(3)>>,
     << <<"blur", <<>> >>, <<"border", <<>> >> >>,
     <<BlurFx(1), BorderFx(1, <<"#", "f", "f", "f">>), GlowFx(1, 50)>>}

\* ------------------------------------------- BannerTransformer, called directly
\* a method called on a transformer: the image it leaves and the record of
\* the call
Returned(stage, r, call, draws) ==
    /\ image' = r.image
    /\ last' = call
    /\ rngDraws' = rngDraws + draws
    /\ pc' = "returned"
    /\ stages' = Append(stages, stage)
    /\ UNCHANGED <<request, style_preset, response>>

GradientReturned(a, r) ==
    Returned("gradient", r, GradientCall(image, a[1], a[2], a[3], r), 0)
CallGradient ==
    /\ pc = "api"
    /\ UNCHANGED server
    /\ \E a \in GradientArgs :
         GradientReturned(a, apply_gradient(image, a[1], a[2], a[3]))

TextureReturned(a, r) ==
    Returned("texture", r, TextureCall(image, a[1], a[2], a[3], a[4], r),
             TextureDraws(a[1], image.w, image.h))
CallTexture ==
    /\ pc = "api"
    /\ UNCHANGED server
    /\ \E a \in TextureArgs :
         TextureReturned(a, apply_texture(image, a[1], a[2], a[3], a[4]))

OverlayReturned(a, r) ==
    Returned("overlay", r, OverlayCall(image, a[1], a[2], r), 0)
CallOverlay ==
    /\ pc = "api"
    /\ UNCHANGED server
    /\ \E a \in OverlayArgs :
         OverlayReturned(a, apply_overlay(image, a[1], a[2]))

EffectsReturned(fx, pick, r) ==
    Returned("effects", r, EffectsCall(image, fx, pick, r), 0)
CallEffects ==
    /\ pc = "api"
    /\ UNCHANGED server
    /\ \E fx \in EffectConfigs, pick \in BlurPicks :
         EffectsReturned(fx, pick, apply_effects(image, fx, pick))

\* ----------------------------------------------------------- specifications
Init ==
    /\ pc = "start"
    /\ request \in Requests
    /\ image = NoImage
    /\ style_preset = NoPreset
    /\ stages = <<>>
    /\ last = NoCall
    /\ rngDraws = 0
    /\ response = 0
    /\ now = 0
    /\ files = <<>>
    /\ handlers = <<>>

Next ==
    \/ Validate
    \/ CreateImage
    \/ GetStylePreset
    \/ GradientStage
    \/ TextureStage
    \/ OverlayStage
    \/ EffectsStage
    \/ Save

Spec == Init /\ [][Next]_vars

InitAPI ==
    /\ pc = "api"
    /\ request = NoRequest
    /\ image \in SampleImages
    /\ style_preset = NoPreset
    /\ stages = <<>>
    /\ last = NoCall
    /\ rngDraws = 0
    /\ response = 0
    /\ now = 0
    /\ files = <<>>
    /\ handlers = <<>>

NextAPI ==
    \/ CallGradient
    \/ CallTexture
    \/ CallOverlay
    \/ CallEffects

SpecAPI == InitAPI /\ [][NextAPI]_vars

\* ------------------------------------------------- requests served together
\* generate_unique_filename('banner.png') at clock reading t: name, '_',
\* strftime('%Y%m%d_%H%M%S') and the extension.  The format has no field
\* below the second, so the stamp is the whole second of t.     app.py:13-17
generate_unique_filename(t) == <<"banner", "_", t \div TicksPerSecond, ".png">>

\* the clock advances
Tick ==
    /\ now < MaxSeconds * TicksPerSecond
    /\ now' = now + 1
    /\ UNCHANGED <<pc, request, image, style_preset, stages, last, rngDraws,
                   response, files, handlers>>

\* filename = generate_unique_filename('banner.png')               app.py:91
GenerateFilename ==
    /\ \E id \in DOMAIN handlers :
          /\ handlers[id].pc = "rendered"
          /\ handlers' = [handlers EXCEPT
                ![id].pc = "named",
                ![id].filename = generate_unique_filename(now)]
    /\ UNCHANGED <<pc, request, image, style_preset, stages, last, rngDraws,
                   response, now, files>>

\* filepath = save_banner(image, filename, app.config['UPLOAD_FOLDER']) and
\* the response carrying it as banner_url: image.save(filepath) replaces a
\* file that is already there                          app.py:19-25, 92-94
SaveBanner ==
    /\ \E id \in DOMAIN handlers :
          /\ handlers[id].pc = "named"
          /\ files' = (<<"static/banners", handlers[id].filename>> :> id)
                       @@ files
          /\ handlers' = [handlers EXCEPT
                ![id].pc = "done",
                ![id].banner_url = <<"static/banners", handlers[id].filename>>]
    /\ UNCHANGED <<pc, request, image, style_preset, stages, last, rngDraws,
                   response, now>>

\* every request has its banner rendered and is about to name its file
InitServe ==
    /\ pc = "serve"
    /\ request = NoRequest
    /\ image = NoImage
    /\ style_preset = NoPreset
    /\ stages = <<>>
    /\ last = NoCall
    /\ rngDraws = 0
    /\ response = 0
    /\ now = 0
    /\ files = <<>>
    /\ \E n \in 1..MaxRequests :
          handlers = [id \in 1..n |->
                        [pc |-> "rendered", filename |-> <<>>,
                         banner_url |-> <<>>]]

NextServe ==
    \/ Tick
    \/ GenerateFilename
    \/ SaveBanner

SpecServe == InitServe /\ [][NextServe]_vars

\* ------------------------------------------------------------------ claims
\* C1: a run calls the stage methods in the order gradient, texture,
\* overlay, effects, each at most once and only for keys the plan has,
\* whatever the order of the keys in the preset; a run that ends with
\* success has called exactly the stages of its plan.
Rank(stage) ==
    IF stage = "gradient" THEN 1
    ELSE IF stage = "texture" THEN 2
    ELSE IF stage = "overlay" THEN 3
    ELSE 4
C1_FixedStageOrder ==
    /\ \A i \in 1..Len(stages) : \A j \in 1..Len(stages) :
           i < j => Rank(stages[i]) < Rank(stages[j])
    /\ \A i \in 1..Len(stages) :
           /\ stages[i] \in {"gradient", "texture", "overlay", "effects"}
           /\ HasKey(style_preset.items, stages[i])
    /\ (pc = "done" /\ response = 200) =>
           {stages[i] : i \in 1..Len(stages)} = Keys(style_preset.items)
C1_Witness ==
    /\ request.style = "vintage"
    /\ Keys(style_preset.items) = {"overlay", "texture", "effects"}
    /\ style_preset.items[1][1] = "overlay"
    /\ pc = "done"
    /\ stages = <<"texture">>

\* C2: a style name that is none of the four presets resolves to the modern
\* plan without failing, and the run ends like a run of "modern" on the same
\* width and height.
ModernRun(w, h, pick) ==
    apply_effects(
        apply_gradient(NewImage(w, h, <<255, 255, 255, 0>>),
                       Get(Get(modern, "gradient"), "start_color"),
                       Get(Get(modern, "gradient"), "end_color"),
                       Get(Get(modern, "gradient"), "direction")).image,
        Get(modern, "effects"), pick)
C2_UnknownStyleIsModern ==
    (/\ request.style \notin PresetNames
     /\ validate_banner_request(request) = None
     /\ pc \notin {"start", "validated", "created"}) =>
        /\ style_preset.kind = "dict"
        /\ style_preset.items = modern
        /\ pc = "done" =>
              /\ response = 200
              /\ \E pick \in BlurPicks :
                    image = ModernRun(request.width, request.height, pick).image

\* C3: a request with a side <= 0 or above 4000 is answered with the
\* validation error (400) before any image is allocated and before any stage
\* runs; a request with both sides in 1..4000 passes the validation.
BadSide(n) == n <= 0 \/ n > 4000
C3_InvalidDimensionsRejected ==
    (pc # "start" /\ request.fields = AllFields) =>
        IF BadSide(request.width) \/ BadSide(request.height)
        THEN /\ pc = "done"
             /\ response = 400
             /\ image.w = 0
             /\ stages = <<>>
             /\ last.op = "none"
        ELSE pc = "validated" \/ image.w > 0
C3_Witness ==
    /\ request.fields = AllFields
    /\ request.width = 1
    /\ request.height = 5000
    /\ pc = "done"
    /\ response = 400

\* C4: apply_effects calls the effect methods in the order of the entries
\* of its dictionary, each on the image the previous one left, and leaves
\* the image of the last one.
RECURSIVE KnownEntries(_)
KnownEntries(effects) ==
    IF effects = <<>> THEN <<>>
    ELSE IF Head(effects)[1] \in KnownEffects
    THEN <<Head(effects)>> \o KnownEntries(Tail(effects))
    ELSE KnownEntries(Tail(effects))
C4_EffectsInDeclaredOrder ==
    last.op = "effects" =>
        LET decl == KnownEntries(last.effects)
            n    == Len(last.ran)
            Out(i) == ApplyEffect(last.inputs[i], decl[i][1], decl[i][2],
                                  last.pick).image
        IN  /\ n <= Len(decl)
            /\ \A i \in 1..n : last.ran[i] = decl[i][1]
            /\ last.exc = None => n = Len(decl)
            /\ n > 0 => last.inputs[1] = last.before
            /\ \A i \in 1..(n - 1) : last.inputs[i + 1] = Out(i)
            /\ image = IF n = 0 THEN last.before
                       ELSE IF last.exc = None THEN Out(n)
                       ELSE last.inputs[n]
C4_Witness ==
    /\ last.op = "effects"
    /\ last.exc = None
    /\ last.ran = <<"border", "blur">>
    /\ image # last.before

\* C5: apply_texture with a texture type other than noise, grain or paper
\* does not fail and composites the layer of the Noise generator: one random
\* luminance per pixel in R, G and B, with the uniform alpha.
C5_UnknownTextureIsNoise ==
    (last.op = "texture"
     /\ last.texture_type \notin {"noise", "grain", "paper"}) =>
        /\ last.exc = None
        /\ last.draws = last.before.w * last.before.h
        /\ image = apply_texture(last.before, "noise", last.opacity,
                                 last.seed, last.pick).image

\* C6: a colour string that is not '#' followed by exactly six hex digits is
\* rejected with ValueError by the operation it is handed to, and the image
\* is left unchanged.
Rejected == last.exc = ValueError /\ image = last.before
C6_MalformedColourRejected ==
    /\ (last.op = "gradient" /\ ~IsHexColor(last.start_color)) => Rejected
    /\ (last.op = "gradient" /\ ~IsHexColor(last.end_color)) => Rejected
    /\ (last.op = "overlay" /\ ~IsHexColor(last.color)) => Rejected

\* the gradient buffer of the most recent apply_gradient call
LastGradient ==
    GradientImage(last.before.w, last.before.h, ParseHex(last.start_color),
                  ParseHex(last.end_color), last.direction)
GradientDone == last.op = "gradient" /\ last.exc = None
Between(x, a, b) == Min(a, b) <= x /\ x <= Max(a, b)

WasTransparent == \A p \in DOMAIN last.before.px : last.before.px[p][4] = 0
C8_ChannelsRounded ==
    (GradientDone /\ WasTransparent
     /\ IsHexColor(last.start_color) /\ IsHexColor(last.end_color)) =>
        LET c1 == ParseHex(last.start_color)
            c2 == ParseHex(last.end_color)
            n  == IF last.direction = "horizontal" THEN image.w ELSE image.h
            d  == n - 1
        IN  \A p \in DOMAIN image.px : \A c \in 1..3 :
                LET i == IF last.direction = "horizontal" THEN p[1] ELSE p[2]
                IN  IF d = 0 THEN image.px[p][c] = c1[c]
                    ELSE 2 * Abs(image.px[p][c] * d
                                 - (c1[c] * (d - i) + c2[c] * i)) <= d

\* C9: on a transparent image the pixels at factor 0 have exactly the start
\* colour, those at factor 1 (axis of two or more pixels) exactly the end
\* colour, and an axis of one pixel gives the start colour everywhere.
Opaque(rgb) == <<Clip8(rgb[1]), Clip8(rgb[2]), Clip8(rgb[3]), 255>>
C9_GradientEndpoints ==
    (GradientDone /\ WasTransparent) =>
        LET n == IF last.direction = "horizontal" THEN image.w ELSE image.h
        IN  \A p \in DOMAIN image.px :
                LET i == IF last.direction = "horizontal" THEN p[1] ELSE p[2]
                IN  /\ i = 0 => image.px[p] = Opaque(ParseHex(last.start_color))
                    /\ (n >= 2 /\ i = n - 1) =>
                           image.px[p] = Opaque(ParseHex(last.end_color))
                    /\ n = 1 => image.px[p] = Opaque(ParseHex(last.start_color))
C9_Witness ==
    /\ GradientDone
    /\ WasTransparent
    /\ image.w = 1
    /\ image.h = 1
    /\ ParseHex(last.start_color) # ParseHex(last.end_color)
    /\ image.px[<<0, 0>>] = Opaque(ParseHex(last.start_color))

\* C10: apply_overlay with opacity 0 leaves every pixel as it was, and with
\* opacity 1 makes every pixel (r, g, b, 255) of its colour, whatever the
\* image held.
C10_OverlayExtremes ==
    (last.op = "overlay" /\ last.exc = None) =>
        /\ last.opacity = 0 => image = last.before
        /\ last.opacity = 100 =>
              \A p \in DOMAIN image.px :
                  image.px[p] = Opaque(ParseHex(last.color))
C10_Witness ==
    /\ last.op = "overlay"
    /\ last.exc = None
    /\ last.opacity = 100
    /\ \E p \in DOMAIN image.px : last.before.px[p][4] = 255
    /\ \E p \in DOMAIN image.px : last.before.px[p][4] = 128
    /\ \A p \in DOMAIN image.px : image.px[p] # last.before.px[p]

\* C11: apply_border with width 0 leaves the image pixel for pixel as it was
\* before the call, whatever the colour, the default colour included: the
\* image after each zero-width border call of apply_effects is the image
\* that call started from.
Black == Hex("0", "0", "0", "0", "0", "0")
EffectOut(i) == IF i < Len(last.ran) THEN last.inputs[i + 1] ELSE image
ZeroBorder(i) ==
    /\ last.ran[i] = "border"
    /\ GetOr(KnownEntries(last.effects)[i][2], "width", 2) = 0
C11_ZeroWidthBorderNoOp ==
    last.op = "effects" =>
        \A i \in 1..Len(last.ran) :
            ZeroBorder(i) => EffectOut(i) = last.inputs[i]
C11_Witness ==
    /\ last.op = "effects"
    /\ last.exc = None
    /\ \E i \in 1..Len(last.ran) :
          /\ ZeroBorder(i)
          /\ ~HasKey(KnownEntries(last.effects)[i][2], "color")
          /\ EffectOut(i) = last.inputs[i]
          /\ \A p \in DOMAIN image.px :
                last.inputs[i].px[p] # Ink(ParseHex(Black), 255)

\* C12: a run of the modern plan that ends with a saved banner leaves every
\* pixel with alpha 255, the corner pixels of the left column with the start
\* colour of the gradient and those of the right column with its end colour.
ModernDone ==
    /\ pc = "done"
    /\ response = 200
    /\ style_preset.kind = "dict"
    /\ style_preset.items = modern
Corners(x) == {<<x, 0>>, <<x, image.h - 1>>}
ModernStart == Opaque(ParseHex(Get(Get(modern, "gradient"), "start_color")))
ModernEnd == Opaque(ParseHex(Get(Get(modern, "gradient"), "end_color")))
C12_ModernOpaqueCorners ==
    ModernDone =>
        /\ \A p \in DOMAIN image.px : image.px[p][4] = 255
        /\ \A p \in Corners(0) : image.px[p] = ModernStart
        /\ \A p \in Corners(image.w - 1) : image.px[p] = ModernEnd
\* C12 as the code has it: the right corners have the end colour on a canvas
\* two or more pixels wide; on a canvas one pixel wide the only column has
\* the start colour.
C12_ModernCornersByWidth ==
    ModernDone =>
        /\ \A p \in DOMAIN image.px : image.px[p][4] = 255
        /\ \A p \in Corners(0) : image.px[p] = ModernStart
        /\ image.w >= 2 =>
              \A p \in Corners(image.w - 1) : image.px[p] = ModernEnd
C12_Witness ==
    /\ ModernDone
    /\ stages = <<"gradient", "effects">>
    /\ last.ran = <<"shadow", "border">>
    /\ image.w > 5
    /\ image.h > 5
    /\ image.px[<<0, 0>>] = ModernStart
    /\ image.px[<<image.w - 1, image.h - 1>>] = ModernEnd

\* C13: a valid request for one of the four presets ends with a saved
\* banner (200) after every stage the preset declares has run, none of them
\* raising.
DeclaredStages(items) ==
    SelectSeq(StageOrder, LAMBDA stage : HasKey(items, stage))
C13_PresetsRunToTheEnd ==
    (/\ pc = "done"
     /\ request.style \in PresetNames
     /\ validate_banner_request(request) = None) =>
        /\ response = 200
        /\ stages = DeclaredStages(Preset(request.style))
        /\ last.exc = None

\* C14: apply_drop_shadow and apply_glow put their layer under the image:
\* a pixel that had alpha 255 before the call has the same RGBA after it,
\* and no pixel has a lower alpha after the call than before.
Underlaid(before, after) ==
    \A p \in DOMAIN before.px :
        /\ before.px[p][4] = 255 => after.px[p] = before.px[p]
        /\ after.px[p][4] >= before.px[p][4]
C14_ShadowAndGlowUnderlay ==
    last.op = "effects" =>
        \A i \in 1..Len(last.ran) :
            last.ran[i] \in {"shadow", "glow"} =>
                Underlaid(last.inputs[i], EffectOut(i))
ShowsUnder(before, after) ==
    /\ \E p \in DOMAIN before.px :
          before.px[p][4] = 255 /\ after.px[p] = before.px[p]
    /\ \E p \in DOMAIN before.px :
          before.px[p][4] < 255 /\ after.px[p] # before.px[p]
C14_Witness ==
    /\ last.op = "effects"
    /\ last.exc = None
    /\ Len(last.ran) >= 2
    /\ last.ran[1] = "shadow"
    /\ last.ran[2] = "glow"
    /\ ShowsUnder(last.inputs[1], EffectOut(1))
    /\ ShowsUnder(last.inputs[2], EffectOut(2))

\* C15: two requests that were both answered have different file paths,
\* and the file at the banner_url of each holds the banner of that request.
Answered == {id \in DOMAIN handlers : handlers[id].pc = "done"}
C15_OwnFilePerRequest ==
    \A i \in Answered :
        /\ files[handlers[i].banner_url] = i
        /\ \A j \in Answered \ {i} :
              handlers[i].banner_url # handlers[j].banner_url

====
